---- MODULE Spec2Model ----
(***************************************************************************)
(* BM25 equivalence checkers tools/bm25_equiv.py (independent statistics)  *)
(* and tools/bm25_equiv_strict.py (statistics locked to FULL).             *)
(*                                                                         *)
(* Representation.                                                         *)
(*  - A string is the sequence of its character codes, so Python's str     *)
(*    comparison is the lexicographic order StrLess on those sequences.    *)
(*  - A float score is a fixed-point integer in units of 1/100000.  The    *)
(*    natural logarithm is tabulated in LN at that scale; every quotient   *)
(*    is an integer floor division, which keeps the order of the exact     *)
(*    values wherever they differ by more than a few units.                *)
(*  - avgdl is kept as the pair (sumdl, N); avgdl = sumdl / N.             *)
(*  - A dict is a function; dict.get(key, default) is Get.                 *)
(***************************************************************************)
EXTENDS Integers, Sequences, FiniteSets, TLC

(* ------------------------------ bounds --------------------------------- *)
\* number of catalogue documents a corpus may draw from
NDocs == 3
\* longest corpus (FULL or REDUCED) of a run of main, in documents
MaxN == 3
\* number of catalogue query strings
NQueries == 2
\* most --q options on one command line
MaxQ == 1
\* largest --k
MaxK == 3
\* largest multiplicity in a count map drawn freely
MaxCount == 2
\* number of distinct score values drawn when scores are inputs
NScores == 2
\* longest document list handed to topk_docs or topk_reconstructed directly
MaxList == 2
\* longest corpus behind the statistics when bm25_score_doc is called directly
MaxStatN == 2
\* longest token sequence scored directly
MaxTokLen == 2
\* longest ranked list handed to the diff directly
MaxRanked == 3

(* ------------------------- program constants --------------------------- *)
\* k1 = 1.2, in tenths
K1 == 12
\* b = 0.75, in hundredths
B == 75

(* ------------------------------ strings -------------------------------- *)
Min(a, b) == IF a <= b THEN a ELSE b
Max(a, b) == IF a >= b THEN a ELSE b

\* s < t in Python's str order (code point by code point, a proper prefix first)
StrLess(s, t) ==
  \E p \in 1..(Min(Len(s), Len(t)) + 1) :
     /\ \A j \in 1..(p - 1) : s[j] = t[j]
     /\ \/ p > Len(s) /\ p <= Len(t)
        \/ p <= Len(s) /\ p <= Len(t) /\ s[p] < t[p]

\* str.lower() on one character
Lower(c) == IF c \in 65..90 THEN c + 32 ELSE c

\* the character class [a-z0-9]
IsWordChar(c) == c \in 48..57 \/ c \in 97..122

RECURSIVE Scan(_, _, _, _)
Scan(s, i, cur, acc) ==
  IF i > Len(s)
    THEN IF cur = <<>> THEN acc ELSE Append(acc, cur)
    ELSE LET c == Lower(s[i]) IN
         IF IsWordChar(c)
           THEN Scan(s, i + 1, Append(cur, c), acc)
           ELSE Scan(s, i + 1, <<>>, IF cur = <<>> THEN acc ELSE Append(acc, cur))

\* WORD.findall(s.lower()): the maximal runs of [a-z0-9]
tokenize(s) == Scan(s, 1, <<>>, <<>>)

\* dict.get(key, default)
Get(m, key, default) == IF key \in DOMAIN m THEN m[key] ELSE default

\* the empty dict
EmptyMap == [x \in {} |-> 0]

RECURSIVE SumSeq(_)
SumSeq(s) == IF s = <<>> THEN 0 ELSE Head(s) + SumSeq(Tail(s))

\* Counter(tokens)[q], 0 when absent
Freq(tokens, q) == Cardinality({i \in 1..Len(tokens) : tokens[i] = q})

(* ------------------------------ catalogues ----------------------------- *)
\* "cat dog", "bird", "dog cat", "cat cat", "cat", "dog", "cat!dog"
DocCatalogue ==
  << <<99, 97, 116, 32, 100, 111, 103>>,
     <<98, 105, 114, 100>>,
     <<100, 111, 103, 32, 99, 97, 116>>,
     <<99, 97, 116, 32, 99, 97, 116>>,
     <<99, 97, 116>>,
     <<100, 111, 103>>,
     <<99, 97, 116, 33, 100, 111, 103>> >>

\* "cat", "cat bird", "dog", "bird", "cat cat"
QueryCatalogue ==
  << <<99, 97, 116>>,
     <<99, 97, 116, 32, 98, 105, 114, 100>>,
     <<100, 111, 103>>,
     <<98, 105, 114, 100>>,
     <<99, 97, 116, 32, 99, 97, 116>> >>

DocPool == {DocCatalogue[i] : i \in 1..Min(NDocs, Len(DocCatalogue))}
QueryPool == {QueryCatalogue[i] : i \in 1..Min(NQueries, Len(QueryCatalogue))}

SeqsUpTo(S, n) == UNION {[1..m -> S] : m \in 0..n}
Corpora == SeqsUpTo(DocPool, MaxN)
QueryArgs == SeqsUpTo(QueryPool, MaxQ) \ {<<>>}
KRange == (0 - 1)..MaxK

\* q_terms = [] ; for q in args.q: q_terms += tokenize(q)
RECURSIVE QueryTerms(_)
QueryTerms(qs) == IF qs = <<>> THEN <<>> ELSE tokenize(Head(qs)) \o QueryTerms(Tail(qs))

(* ------------------------------ statistics ----------------------------- *)
\* build_full_stats: N, sum(dl) (avgdl = sumdl / N, 0.0 when N = 0) and df
build_full_stats(docs) ==
  LET toks == [i \in 1..Len(docs) |-> tokenize(docs[i])]
      terms == UNION {{toks[i][j] : j \in 1..Len(toks[i])} : i \in 1..Len(docs)}
  IN [N |-> Len(toks),
      sumdl |-> SumSeq([i \in 1..Len(docs) |-> Len(toks[i])]),
      df |-> [t \in terms |->
                Cardinality({i \in 1..Len(docs) : \E j \in 1..Len(toks[i]) : toks[i][j] = t})]]

\* round(100000 * ln(i)) for i = 1..24
LN ==
  << 0, 69315, 109861, 138629, 160944, 179176, 194591, 207944,
     219722, 230259, 239790, 248491, 256495, 263906, 270805, 277259,
     283321, 289037, 294444, 299573, 304452, 309104, 313549, 317805 >>

\* idf without the "+ 1.0" inside the logarithm
idf_without_one(term, N, df) ==
  LET n == Get(df, term, 0)
  IN LN[2 * N - 2 * n + 1] - LN[2 * n + 1]

\* math.log((N - n + 0.5) / (n + 0.5) + 1.0): the argument is
\* ((2N - 2n + 1) + (2n + 1)) / (2n + 1), and ln(p / q) = ln p - ln q
idf(term, N, df) ==
  LET n == Get(df, term, 0)
      q == 2 * n + 1
      p == (2 * N - 2 * n + 1) + q
  IN LN[p] - LN[q]

\* one query term's summand idf * (f * (k1 + 1) / denom), with
\* denom = f + k1 * (1 - b + b * (dl / avgdl if avgdl else 0)).
\* Numerator and denominator are both multiplied by 10 * sumdl (by 10 when
\* avgdl is 0), which leaves the quotient unchanged.
Summand(f, dl, q, st) ==
  LET avgdl_nonzero == st.N # 0 /\ st.sumdl # 0
      num == IF avgdl_nonzero THEN f * (K1 + 10) * st.sumdl ELSE f * (K1 + 10)
      den == IF avgdl_nonzero
               THEN 10 * f * st.sumdl
                    + (K1 * ((100 - B) * st.sumdl + B * dl * st.N)) \div 100
               ELSE 10 * f + (K1 * (100 - B)) \div 100
  IN (idf(q, st.N, st.df) * num) \div den

RECURSIVE ScoreTerms(_, _, _)
ScoreTerms(doc_tokens, q_terms_, st) ==
  IF q_terms_ = <<>> THEN 0
  ELSE LET q == Head(q_terms_)
           f == Freq(doc_tokens, q)
       IN (IF f = 0 THEN 0 ELSE Summand(f, Len(doc_tokens), q, st))
          + ScoreTerms(doc_tokens, Tail(q_terms_), st)

\* bm25_score_doc(doc_tokens, q_terms, N, avgdl, df)
bm25_score_doc(doc_tokens, q_terms_, st) == ScoreTerms(doc_tokens, q_terms_, st)

\* bm25_scores(docs, query_terms): every document against the statistics of docs
bm25_scores(docs, q_terms_) ==
  LET st == build_full_stats(docs)
  IN [i \in 1..Len(docs) |-> bm25_score_doc(tokenize(docs[i]), q_terms_, st)]

(* ------------------------------ ranking -------------------------------- *)
\* the tuple order with the document tie-break turned round
KeyLessDocAscending(s1, d1, s2, d2) == s1 < s2 \/ (s1 = s2 /\ StrLess(d2, d1))

\* (s1, d1) < (s2, d2) as Python tuples (score, doc)
KeyLess(s1, d1, s2, d2) == s1 < s2 \/ (s1 = s2 /\ StrLess(d1, d2))

\* the sort without reverse = True
RECURSIVE SortAscending(_, _, _)
SortAscending(rem, docs, scores) ==
  IF rem = {} THEN <<>>
  ELSE LET first == CHOOSE i \in rem :
                      \A j \in rem \ {i} :
                         \/ scores[i] < scores[j] \/ (scores[i] = scores[j] /\ StrLess(docs[i], docs[j]))
                         \/ /\ scores[j] = scores[i]
                            /\ docs[j] = docs[i]
                            /\ i < j
       IN <<first>> \o SortAscending(rem \ {first}, docs, scores)

\* list.sort(key = (scores[i], docs[i]), reverse = True): descending by key;
\* the sort is stable, so equal keys keep their original (ascending index) order
RECURSIVE SortDesc(_, _, _)
SortDesc(rem, docs, scores) ==
  IF rem = {} THEN <<>>
  ELSE LET first == CHOOSE i \in rem :
                      \A j \in rem \ {i} :
                         \/ KeyLess(scores[j], docs[j], scores[i], docs[i])
                         \/ /\ scores[j] = scores[i]
                            /\ docs[j] = docs[i]
                            /\ i < j
       IN <<first>> \o SortDesc(rem \ {first}, docs, scores)

\* s[:k] for a Python list: the first k elements, and for a negative k all
\* but the last -k elements
Slice(s, k) ==
  SubSeq(s, 1, IF k >= 0 THEN Min(k, Len(s)) ELSE Max(0, Len(s) + k))

\* topk_docs / topk_full
topk_docs(docs, scores, k_) ==
  LET idx == Slice(SortDesc(1..Len(docs), docs, scores), k_)
  IN [r \in 1..Len(idx) |->
        [rank |-> r, score |-> scores[idx[r]], doc |-> docs[idx[r]], i |-> idx[r]]]

\* the loop body without the cap on take
VisitNoCap(out_, i, unique_docs, unique_scores, counts, k_) ==
  LET doc == unique_docs[i]
      c == Get(counts, doc, 1)
  IN out_ \o [j \in 1..c |->
                [rank |-> Len(out_) + j, score |-> unique_scores[i], doc |-> doc]]

\* the loop body filling every remaining slot, whatever the count
VisitFill(out_, i, unique_docs, unique_scores, counts, k_) ==
  LET doc == unique_docs[i]
  IN out_ \o [j \in 1..(k_ - Len(out_)) |->
                [rank |-> Len(out_) + j, score |-> unique_scores[i], doc |-> doc]]

\* one iteration of the loop body of topk_reconstructed for index i
Visit(out_, i, unique_docs, unique_scores, counts, k_) ==
  LET doc == unique_docs[i]
      c == Get(counts, doc, 1)
      take == Min(c, k_ - Len(out_))
  IN out_ \o [j \in 1..take |->
                [rank |-> Len(out_) + j, score |-> unique_scores[i], doc |-> doc]]

RECURSIVE ReconLoop(_, _, _, _, _, _)
ReconLoop(order_, out_, unique_docs, unique_scores, counts, k_) ==
  IF order_ = <<>> \/ Len(out_) >= k_ THEN out_
  ELSE ReconLoop(Tail(order_),
                 Visit(out_, Head(order_), unique_docs, unique_scores, counts, k_),
                 unique_docs, unique_scores, counts, k_)

\* topk_reconstructed
topk_reconstructed(unique_docs, unique_scores, counts, k_) ==
  ReconLoop(SortDesc(1..Len(unique_docs), unique_docs, unique_scores), <<>>,
            unique_docs, unique_scores, counts, k_)

(* ------------------------------ diff / report -------------------------- *)
RECURSIVE DiffFrom(_, _, _)
DiffFrom(ft, rt, i) ==
  IF i > Min(Len(ft), Len(rt)) THEN <<>>
  ELSE (IF ft[i].doc # rt[i].doc
          THEN << [rank |-> i,
                   full_doc |-> ft[i].doc, full_score |-> ft[i].score,
                   recon_doc |-> rt[i].doc, recon_score |-> rt[i].score] >>
          ELSE <<>>)
       \o DiffFrom(ft, rt, i + 1)

RECURSIVE DiffKeysFrom(_, _, _)
DiffKeysFrom(ft, rt, i) ==
  IF i > Min(Len(ft), Len(rt)) THEN <<>>
  ELSE (IF ft[i].doc # rt[i].doc \/ ft[i].score # rt[i].score
          THEN << [rank |-> i,
                   full_doc |-> ft[i].doc, full_score |-> ft[i].score,
                   recon_doc |-> rt[i].doc, recon_score |-> rt[i].score] >>
          ELSE <<>>)
       \o DiffKeysFrom(ft, rt, i + 1)

\* the mismatch loop comparing score as well as document
MismatchesOnKeys(ft, rt) == DiffKeysFrom(ft, rt, 1)

\* the mismatch loop of main
Mismatches(ft, rt) == DiffFrom(ft, rt, 1)

\* the STATUS line of the report
StatusLine(mm) ==
  IF mm = <<>> THEN [status |-> "PASS", mismatches |-> 0]
  ELSE [status |-> "FAIL", mismatches |-> Len(mm)]

(* ------------------------------ state ---------------------------------- *)
VARIABLES
  pc,          \* position in main, or in the function under study
  full_docs,   \* FULL corpus, normalised lines
  red_docs,    \* REDUCED corpus, normalised lines
  counts_map,  \* the COUNTS object
  q_terms,     \* the flat query term list
  k,           \* args.k
  stats,       \* N, sumdl, df of build_full_stats(full_docs)
  full_scores, red_scores,
  full_top, red_top,
  order, out,  \* locals of topk_reconstructed while its loop runs
  mismatches,
  report,      \* the STATUS line
  probe        \* token sequences handed to bm25_score_doc directly

vars == <<pc, full_docs, red_docs, counts_map, q_terms, k, stats, full_scores,
          red_scores, full_top, red_top, order, out, mismatches, report, probe>>

NoStats == [N |-> 0, sumdl |-> 0, df |-> EmptyMap]
NoReport == [status |-> "none", mismatches |-> 0]

\* everything main has not computed yet
Blank ==
  /\ stats = NoStats
  /\ full_scores = <<>> /\ red_scores = <<>>
  /\ full_top = <<>> /\ red_top = <<>>
  /\ order = <<>> /\ out = <<>>
  /\ mismatches = <<>>
  /\ report = NoReport
  /\ probe = <<>>

(* ------------------------------ inputs --------------------------------- *)
DocSet(docs) == {docs[i] : i \in 1..Len(docs)}
Occurrences(docs, d) == Cardinality({i \in 1..Len(docs) : docs[i] = d})

\* the count map that gives each document of docs its number of occurrences
TrueCounts(docs) == [d \in DocSet(docs) |-> Occurrences(docs, d)]

\* the documents of docs in order of first occurrence
RECURSIVE FirstOccurrences(_)
FirstOccurrences(docs) ==
  IF docs = <<>> THEN <<>>
  ELSE LET front == FirstOccurrences(SubSeq(docs, 1, Len(docs) - 1))
           last == docs[Len(docs)]
       IN IF last \in DocSet(front) THEN front ELSE Append(front, last)

\* every listing of a set, each element once
Orderings(S) ==
  {s \in [1..Cardinality(S) -> S] : \A i, j \in 1..Cardinality(S) : i # j => s[i] # s[j]}

\* REDUCED holds exactly one copy of each distinct document of FULL and the
\* count map holds the true occurrence counts
ExactDedup ==
  /\ DocSet(red_docs) = DocSet(full_docs)
  /\ Len(red_docs) = Cardinality(DocSet(full_docs))
  /\ counts_map = TrueCounts(full_docs)

\* count maps over the documents of docs: each document absent or 1..MaxCount
CountMaps(docs) ==
  UNION {[D -> 1..MaxCount] : D \in SUBSET DocSet(docs)}

\* the state after main has read its arguments and files (lines 74-80):
\* an exact deduplication, a deduplication whose counts were lost (all 1),
\* or an empty FULL file beside any REDUCED file
Init ==
  /\ pc = "read"
  /\ full_docs \in Corpora
  /\ \/ /\ red_docs \in Orderings(DocSet(full_docs))
        /\ counts_map = TrueCounts(full_docs)
     \/ /\ red_docs = FirstOccurrences(full_docs)
        /\ counts_map = [d \in DocSet(full_docs) |-> 1]
     \/ /\ full_docs = <<>>
        /\ red_docs \in Corpora
        /\ counts_map = EmptyMap
  /\ \E qs \in QueryArgs : q_terms = QueryTerms(qs)
  /\ k \in KRange
  /\ Blank

(* ------------------------------ main ----------------------------------- *)
\* bm25_equiv_strict.py line 82
BuildStats ==
  /\ pc = "read"
  /\ stats' = build_full_stats(full_docs)
  /\ pc' = "stats"
  /\ UNCHANGED <<full_docs, red_docs, counts_map, q_terms, k, full_scores,
                 red_scores, full_top, red_top, order, out, mismatches, report, probe>>

\* bm25_equiv_strict.py lines 84-85: both corpora against the FULL statistics
ScoreStrict ==
  /\ pc = "stats"
  /\ full_scores' = [i \in 1..Len(full_docs) |->
                       bm25_score_doc(tokenize(full_docs[i]), q_terms, stats)]
  /\ red_scores' = [i \in 1..Len(red_docs) |->
                      bm25_score_doc(tokenize(red_docs[i]), q_terms, stats)]
  /\ pc' = "scored"
  /\ UNCHANGED <<full_docs, red_docs, counts_map, q_terms, k, stats,
                 full_top, red_top, order, out, mismatches, report, probe>>

\* the independent scoring pass with REDUCED scored against FULL's statistics
ScoreIndepLocked ==
  /\ pc = "read"
  /\ full_scores' = bm25_scores(full_docs, q_terms)
  /\ red_scores' = [i \in 1..Len(red_docs) |->
                      bm25_score_doc(tokenize(red_docs[i]), q_terms,
                                     build_full_stats(full_docs))]
  /\ pc' = "scored"
  /\ UNCHANGED <<full_docs, red_docs, counts_map, q_terms, k, stats,
                 full_top, red_top, order, out, mismatches, report, probe>>

\* bm25_equiv.py lines 86-90: each corpus against its own statistics
ScoreIndep ==
  /\ pc = "read"
  /\ full_scores' = bm25_scores(full_docs, q_terms)
  /\ red_scores' = bm25_scores(red_docs, q_terms)
  /\ pc' = "scored"
  /\ UNCHANGED <<full_docs, red_docs, counts_map, q_terms, k, stats,
                 full_top, red_top, order, out, mismatches, report, probe>>

\* lines 87-88 (strict), 92-93 (independent)
Rank ==
  /\ pc = "scored"
  /\ full_top' = topk_docs(full_docs, full_scores, k)
  /\ red_top' = topk_reconstructed(red_docs, red_scores, counts_map, k)
  /\ pc' = "ranked"
  /\ UNCHANGED <<full_docs, red_docs, counts_map, q_terms, k, stats, full_scores,
                 red_scores, order, out, mismatches, report, probe>>

\* the mismatch loop
Diff ==
  /\ pc = "ranked"
  /\ mismatches' = Mismatches(full_top, red_top)
  /\ pc' = "diffed"
  /\ UNCHANGED <<full_docs, red_docs, counts_map, q_terms, k, stats, full_scores,
                 red_scores, full_top, red_top, order, out, report, probe>>

\* the report's STATUS line
Report ==
  /\ pc = "diffed"
  /\ report' = StatusLine(mismatches)
  /\ pc' = "done"
  /\ UNCHANGED <<full_docs, red_docs, counts_map, q_terms, k, stats, full_scores,
                 red_scores, full_top, red_top, order, out, mismatches, probe>>

Next == BuildStats \/ ScoreStrict \/ Rank \/ Diff \/ Report
\* bm25_equiv_strict.py
Spec == Init /\ [][Next]_vars

NextIndep == ScoreIndep \/ Rank \/ Diff \/ Report
\* bm25_equiv.py
SpecIndep == Init /\ [][NextIndep]_vars

(* ------------------------------ bm25_score_doc alone ------------------- *)
\* the tokens that occur in the document pool
TokenPool == UNION {{tokenize(d)[j] : j \in 1..Len(tokenize(d))} : d \in DocPool}

\* the state after line 82, with two token sequences of one length to score
InitScore ==
  /\ pc = "probe"
  /\ full_docs \in SeqsUpTo(DocPool, MaxStatN)
  /\ stats = build_full_stats(full_docs)
  /\ \E qs \in QueryArgs : q_terms = QueryTerms(qs)
  /\ \E m \in 0..MaxTokLen : probe \in [1..2 -> [1..m -> TokenPool]]
  /\ red_docs = <<>> /\ counts_map = EmptyMap /\ k = 0
  /\ full_scores = <<>> /\ red_scores = <<>>
  /\ full_top = <<>> /\ red_top = <<>>
  /\ order = <<>> /\ out = <<>>
  /\ mismatches = <<>>
  /\ report = NoReport

ScoreProbe ==
  /\ pc = "probe"
  /\ red_scores' = [i \in 1..2 |-> bm25_score_doc(probe[i], q_terms, stats)]
  /\ pc' = "probed"
  /\ UNCHANGED <<full_docs, red_docs, counts_map, q_terms, k, stats, full_scores,
                 full_top, red_top, order, out, mismatches, report, probe>>

NextScore == ScoreProbe
SpecScore == InitScore /\ [][NextScore]_vars

(* ------------------------------ topk_docs alone ------------------------ *)
ScoreVals == 0..(NScores - 1)

\* any document list with any score list of the same length, any --k
InitSelect ==
  /\ pc = "select"
  /\ full_docs \in SeqsUpTo(DocPool, MaxList)
  /\ full_scores \in [1..Len(full_docs) -> ScoreVals]
  /\ k \in KRange
  /\ red_docs = <<>> /\ counts_map = EmptyMap /\ q_terms = <<>>
  /\ stats = NoStats
  /\ red_scores = <<>>
  /\ full_top = <<>> /\ red_top = <<>>
  /\ order = <<>> /\ out = <<>>
  /\ mismatches = <<>>
  /\ report = NoReport
  /\ probe = <<>>

Select ==
  /\ pc = "select"
  /\ full_top' = topk_docs(full_docs, full_scores, k)
  /\ pc' = "selected"
  /\ UNCHANGED <<full_docs, red_docs, counts_map, q_terms, k, stats, full_scores,
                 red_scores, red_top, order, out, mismatches, report, probe>>

NextSelect == Select
SpecSelect == InitSelect /\ [][NextSelect]_vars

(* ------------------------------ topk_reconstructed alone --------------- *)
\* any document list, score list, count map and --k
InitRecon ==
  /\ pc = "recon"
  /\ red_docs \in SeqsUpTo(DocPool, MaxList)
  /\ red_scores \in [1..Len(red_docs) -> ScoreVals]
  /\ counts_map \in CountMaps(red_docs)
  /\ k \in KRange
  /\ full_docs = <<>> /\ q_terms = <<>>
  /\ stats = NoStats
  /\ full_scores = <<>>
  /\ full_top = <<>> /\ red_top = <<>>
  /\ order = <<>> /\ out = <<>>
  /\ mismatches = <<>>
  /\ report = NoReport
  /\ probe = <<>>

\* order = sorted indices; out = []
ReconSort ==
  /\ pc = "recon"
  /\ order' = SortDesc(1..Len(red_docs), red_docs, red_scores)
  /\ out' = <<>>
  /\ pc' = "loop"
  /\ UNCHANGED <<full_docs, red_docs, counts_map, q_terms, k, stats, full_scores,
                 red_scores, full_top, red_top, mismatches, report, probe>>

\* one iteration of "for i in order": the break test failed
ReconVisit ==
  /\ pc = "loop"
  /\ order # <<>>
  /\ ~(Len(out) >= k)
  /\ out' = Visit(out, Head(order), red_docs, red_scores, counts_map, k)
  /\ order' = Tail(order)
  /\ UNCHANGED <<pc, full_docs, red_docs, counts_map, q_terms, k, stats, full_scores,
                 red_scores, full_top, red_top, mismatches, report, probe>>

\* the loop ends (order exhausted, or break) and out is returned
ReconReturn ==
  /\ pc = "loop"
  /\ order = <<>> \/ Len(out) >= k
  /\ red_top' = out
  /\ pc' = "returned"
  /\ UNCHANGED <<full_docs, red_docs, counts_map, q_terms, k, stats, full_scores,
                 red_scores, full_top, order, out, mismatches, report, probe>>

NextRecon == ReconSort \/ ReconVisit \/ ReconReturn
SpecRecon == InitRecon /\ [][NextRecon]_vars

(* ------------------------------ the diff alone ------------------------- *)
\* documents and scores already in (score, doc) descending order
Descending(docs, scores) ==
  \A i \in 1..(Len(docs) - 1) :
     ~KeyLess(scores[i], docs[i], scores[i + 1], docs[i + 1])

\* the documents of the ranked lists handed to the diff directly
DiffDocs == {DocCatalogue[1], DocCatalogue[2]}

\* the state after ranking, for any two ranked lists
InitDiff ==
  /\ pc = "ranked"
  /\ \E fd \in SeqsUpTo(DiffDocs, MaxRanked) : \E fs \in [1..Len(fd) -> ScoreVals] :
        /\ Descending(fd, fs)
        /\ full_top = topk_docs(fd, fs, Len(fd))
  /\ \E rd \in SeqsUpTo(DiffDocs, MaxRanked) : \E rs \in [1..Len(rd) -> ScoreVals] :
        /\ Descending(rd, rs)
        /\ red_top = topk_reconstructed(rd, rs, EmptyMap, Len(rd))
  /\ full_docs = <<>> /\ red_docs = <<>> /\ counts_map = EmptyMap /\ q_terms = <<>>
  /\ k = 0
  /\ stats = NoStats
  /\ full_scores = <<>> /\ red_scores = <<>>
  /\ order = <<>> /\ out = <<>>
  /\ mismatches = <<>>
  /\ report = NoReport
  /\ probe = <<>>

NextDiff == Diff \/ Report
SpecDiff == InitDiff /\ [][NextDiff]_vars

(* ======================================================================= *)
(*                               properties                                *)
(* ======================================================================= *)
DocSeq(ranked) == [r \in 1..Len(ranked) |-> ranked[r].doc]

CatDog == <<99, 97, 116, 32, 100, 111, 103>>
Bird == <<98, 105, 114, 100>>
Cat == <<99, 97, 116>>

\* C1: locked statistics, REDUCED an exact deduplication of FULL with the
\* true counts, K <= |FULL|: the reconstructed document sequence equals the
\* FULL top-K document sequence position by position, the mismatch list is
\* empty and the report says PASS.
C1_LockedEquivalence ==
  (pc = "done" /\ ExactDedup /\ k <= Len(full_docs))
    => /\ DocSeq(red_top) = DocSeq(full_top)
       /\ mismatches = <<>>
       /\ report.status = "PASS"

\* The same statement for 0 <= K <= |FULL|.
LockedEquivalenceFromZero ==
  (pc = "done" /\ ExactDedup /\ 0 <= k /\ k <= Len(full_docs))
    => /\ DocSeq(red_top) = DocSeq(full_top)
       /\ Len(red_top) = k
       /\ mismatches = <<>>
       /\ report.status = "PASS"

\* a run that ranked duplicates: FULL holds a repeated document and the
\* top-K holds both copies
LockedEquivalenceReached ==
  /\ pc = "done" /\ ExactDedup
  /\ k = Len(full_docs) /\ Len(red_docs) < Len(full_docs) /\ Len(red_docs) >= 2
  /\ full_top[1].score > 0

\* sum of the multiplicities over the documents of REDUCED
TotalCount == SumSeq([i \in 1..Len(red_docs) |-> Get(counts_map, red_docs[i], 1)])

\* C2: the number of entries topk_reconstructed returns never exceeds K, and
\* equals K unless the multiplicities of REDUCED sum to less than K.
C2_Conservation ==
  pc = "returned"
    => /\ Len(red_top) <= k
       /\ (Len(red_top) = k \/ TotalCount < k)

\* C2 amended: the number of entries never exceeds max(K, 0), and equals
\* max(K, 0) unless the multiplicities of REDUCED sum to less than K.
C2_ConservationAmended ==
  pc = "returned"
    => /\ Len(red_top) <= Max(k, 0)
       /\ (Len(red_top) = Max(k, 0) \/ TotalCount < k)

\* the expander returned after cutting a class short: K filled, counts left over
C2_Truncated ==
  /\ pc = "returned"
  /\ k >= 2 /\ Len(red_top) = k /\ TotalCount > k
  /\ red_top[1].doc # red_top[k].doc

\* C3: a list returned by the top-K selector is in score-descending order,
\* adjacent entries of equal score are in document-string-descending order,
\* and the ranks are 1..len.
C3_TieBreakTotality ==
  pc = "selected"
    => /\ \A r \in 1..Len(full_top) : full_top[r].rank = r
       /\ \A r \in 1..(Len(full_top) - 1) :
            /\ full_top[r].score >= full_top[r + 1].score
            /\ full_top[r].score = full_top[r + 1].score
                 => ~StrLess(full_top[r].doc, full_top[r + 1].doc)

\* a selection in which a tie in score was broken by the document string
C3_TieBroken ==
  /\ pc = "selected"
  /\ \E r \in 1..(Len(full_top) - 1) :
       /\ full_top[r].score = full_top[r + 1].score
       /\ StrLess(full_top[r + 1].doc, full_top[r].doc)
       /\ full_top[r].i > full_top[r + 1].i

\* C4: for every k that --k accepts, the list returned by the top-K selector
\* has length min(k, len(documents)).
C4_Length ==
  pc = "selected" => Len(full_top) = Min(k, Len(full_docs))

\* C5: the mismatch list holds, in increasing rank order, exactly one record
\* for each rank up to the shorter list's length at which the documents
\* differ, and nothing else; the report says PASS exactly when it is empty.
C5_DiffSemantics ==
  LET n == Min(Len(full_top), Len(red_top)) IN
  /\ pc \in {"diffed", "done"}
       => /\ \A j \in 1..Len(mismatches) :
               LET m == mismatches[j] IN
               /\ m.rank \in 1..n
               /\ full_top[m.rank].doc # red_top[m.rank].doc
               /\ m.full_doc = full_top[m.rank].doc
               /\ m.full_score = full_top[m.rank].score
               /\ m.recon_doc = red_top[m.rank].doc
               /\ m.recon_score = red_top[m.rank].score
          /\ \A j \in 1..(Len(mismatches) - 1) :
               mismatches[j].rank < mismatches[j + 1].rank
          /\ \A r \in 1..n :
               full_top[r].doc # red_top[r].doc
                 => \E j \in 1..Len(mismatches) : mismatches[j].rank = r
  /\ pc = "done"
       => /\ report.status \in {"PASS", "FAIL"}
          /\ report.status = "PASS" <=> mismatches = <<>>

\* a diff of lists of different lengths with a position that differs in
\* score only and a position that differs in document
C5_MixedDiff ==
  /\ pc = "done"
  /\ Len(full_top) # Len(red_top)
  /\ \E r \in 1..Min(Len(full_top), Len(red_top)) :
       full_top[r].doc = red_top[r].doc /\ full_top[r].score # red_top[r].score
  /\ Len(mismatches) = 1

\* an exact deduplication: FULL = ["bird", "bird", "cat dog"], REDUCED =
\* ["bird", "cat dog"], the true counts, query "cat bird", K = 3
DedupScenario ==
  /\ full_docs = <<Bird, Bird, CatDog>>
  /\ red_docs = <<Bird, CatDog>>
  /\ counts_map = TrueCounts(full_docs)
  /\ q_terms = <<Cat, Bird>>
  /\ k = 3

\* C6: independent statistics do not guarantee equivalence: there is an exact
\* deduplication with true counts and K <= |FULL| (DedupScenario) whose
\* mismatch list, with REDUCED scored against its own statistics, is not empty.
C6_IndepMismatch ==
  (pc = "done" /\ DedupScenario)
    => /\ ExactDedup /\ k <= Len(full_docs)
       /\ mismatches # <<>>
       /\ report.status = "FAIL"

\* the run of the deduplication scenario has finished
C6_IndepRun == pc = "done" /\ DedupScenario

\* C7: statistics built from an empty corpus give every score 0, for any
\* query; in locked mode that covers every REDUCED document scored against
\* an empty FULL.
C7_EmptyCorpusZero ==
  (pc \in {"scored", "ranked", "diffed", "done"} /\ Len(full_docs) = 0)
    => /\ \A i \in 1..Len(full_scores) : full_scores[i] = 0
       /\ \A i \in 1..Len(red_scores) : red_scores[i] = 0

\* the wrong-count scenario of C8
WrongCountScenario ==
  /\ full_docs = <<CatDog, CatDog, Bird>>
  /\ red_docs = <<CatDog, Bird>>
  /\ counts_map = [d \in {CatDog, Bird} |-> 1]
  /\ q_terms = <<Cat>>
  /\ k = 3

\* C8: in the wrong-count scenario the reconstructed list omits the second
\* "cat dog", the only mismatch is at rank 2 (full "cat dog" against
\* reconstructed "bird"), and the report says FAIL with mismatch count 1.
C8_WrongCount ==
  (pc = "done" /\ WrongCountScenario)
    => /\ DocSeq(full_top) = <<CatDog, CatDog, Bird>>
       /\ DocSeq(red_top) = <<CatDog, Bird>>
       /\ Len(mismatches) = 1
       /\ mismatches[1].rank = 2
       /\ mismatches[1].full_doc = CatDog
       /\ mismatches[1].recon_doc = Bird
       /\ report = [status |-> "FAIL", mismatches |-> 1]

\* the wrong-count run has finished
C8_WrongCountRun == pc = "done" /\ WrongCountScenario

\* the second probe has a strictly larger frequency of one query term and
\* no smaller frequency of any query term
TermSet(ts) == {ts[j] : j \in 1..Len(ts)}
FrequencyRaised ==
  /\ \E q \in TermSet(q_terms) : Freq(probe[2], q) > Freq(probe[1], q)
  /\ \A q \in TermSet(q_terms) : Freq(probe[2], q) >= Freq(probe[1], q)

\* C9: with query and statistics fixed, a token sequence of the same length
\* with a larger frequency of one query term and no smaller frequency of any
\* other scores at least as much; every score is non-negative.
C9_Monotonic ==
  pc = "probed"
    => /\ red_scores[1] >= 0 /\ red_scores[2] >= 0
       /\ (Len(probe[1]) = Len(probe[2]) /\ FrequencyRaised)
            => red_scores[2] >= red_scores[1]

\* two sequences of one length scored, the second with the raised frequency
\* and the strictly larger score, on a term most documents contain
C9_Raised ==
  /\ pc = "probed"
  /\ Len(probe[1]) = Len(probe[2]) /\ FrequencyRaised
  /\ red_scores[1] > 0
  /\ red_scores[2] > red_scores[1]
  /\ \E q \in TermSet(q_terms) : 2 * Get(stats.df, q, 0) > stats.N

\* C10: topk_reconstructed visits the documents in (score, document)
\* descending order; each visited document of multiplicity c adds
\* min(c, K - emitted) consecutive entries carrying that document and its
\* score, ranks continuing from the entries before; once K entries are
\* emitted nothing more is added and the rest of the order is not visited.
C10_Expansion ==
  [][/\ (pc = "recon" /\ pc' = "loop")
          => /\ out' = <<>>
             /\ Len(order') = Len(red_docs)
             /\ {order'[a] : a \in 1..Len(order')} = 1..Len(red_docs)
             /\ \A a \in 1..(Len(order') - 1) :
                  LET i == order'[a]
                      j == order'[a + 1]
                  IN \/ red_scores[i] > red_scores[j]
                     \/ /\ red_scores[i] = red_scores[j]
                        /\ ~StrLess(red_docs[i], red_docs[j])
     /\ (pc = "loop" /\ pc' = "loop")
          => LET i == Head(order)
                 c == Get(counts_map, red_docs[i], 1)
             IN /\ Len(out) < k
                /\ order' = Tail(order)
                /\ Len(out') = Len(out) + Min(c, k - Len(out))
                /\ Len(out') <= k
                /\ \A r \in 1..Len(out) : out'[r] = out[r]
                /\ \A r \in (Len(out) + 1)..Len(out') :
                     out'[r] = [rank |-> r, score |-> red_scores[i], doc |-> red_docs[i]]
     /\ (pc = "loop" /\ pc' = "returned")
          => /\ red_top' = out
             /\ order # <<>> => Len(out) >= k
             /\ \A r \in 1..Len(out) : out[r].rank = r
    ]_vars

\* the loop stopped early: K entries emitted, the last class cut short and
\* documents left unvisited
C10_StoppedEarly ==
  /\ pc = "returned"
  /\ order # <<>>
  /\ k >= 1 /\ Len(red_top) = k
  /\ Get(counts_map, red_top[k].doc, 1) > k
====
